---- MODULE Spec2Model ----
(***************************************************************************)
(* Model of teleclaude's PermissionManager (src/src/claude/permissions.py).*)
(*                                                                         *)
(* The manager runs on one asyncio event loop: the code between two await  *)
(* points runs atomically, and at every await any other ready callback may *)
(* run.  One action below is one such atomic stretch of a coroutine, or    *)
(* one whole synchronous method.                                           *)
(*                                                                         *)
(* A call of request_permission is a coroutine frame; the frames are       *)
(* numbered 1..NCalls in the order the calls are made.  Frame c owns the   *)
(* PendingPermission object it creates (its local variable `pending`), so  *)
(* the object's fields are indexed by c as well; the object outlives its   *)
(* entry in the _pending dict.                                             *)
(***************************************************************************)
EXTENDS Integers, FiniteSets, Sequences, TLC

\* ------------------------------------------------------------- bounds
NCalls == 2

Calls == 1..NCalls
\* one token per call is enough: a call generates at most one
Ids == 1..NCalls
Tools == {"Bash", "Write"}
\* the actions the callback-query handlers pass (bot/callbacks.py)
Actions == {"allow", "always", "deny"}

NoCall == 0
NoId == 0
NoChat == 0
TheChat == 1
OtherChat == 2
Chats == {TheChat, OtherChat}

\* ------------------------------------------------------- result values
NoResult == [kind |-> "none", message |-> ""]
PermissionResultAllow == [kind |-> "allow", message |-> ""]
PermissionResultDeny(m) == [kind |-> "deny", message |-> m]

NoReturn == [op |-> "none", ok |-> FALSE, msg |-> "", count |-> 0]

VARIABLES
    pending,        \* self._pending: request id -> the object stored (its frame), or NoCall
    always_allowed, \* self._always_allowed
    chat_id,        \* self._bot / self._chat_id (set together): NoChat when unset
    pc,             \* where each request_permission frame stands: "idle" (not called),
                    \*   "sending" (in bot.send_message), "waiting" (in wait_for, the
                    \*   prompt sent), "waiting_unsent" (in wait_for, send_message
                    \*   having raised), "returned"
    tool_name,      \* frame c: the tool_name argument ("" before the call)
    request_id,     \* frame c: request_id (NoId: none generated)
    result,         \* object c: pending.result
    always_allow,   \* object c: pending.always_allow
    event,          \* object c: pending.event is set
    ret,            \* frame c: the value request_permission returned
    last_return,    \* what the latest handle_permission_response / cancel_all call returned
    turns,          \* the agent turns that use the manager: the chats for which
                    \*   create_claude_options has made a client, and for frame c
                    \*   the chat of the turn whose tool call it is
    streamer,       \* a MessageStreamer: its fields and its lock
    frames,         \* the coroutine frames that use the streamer: its caller and
                    \*   the _delayed_flush tasks
    telegram,       \* the message the streamer edits: the edit_text call in
                    \*   flight, the call that made the last edit accepted, and
                    \*   whether the buffer has changed since the text of that edit
    display,        \* the value of a direct call of _get_display_text
    util            \* a call of a function of utils/html.py or bot/callbacks.py:
                    \*   its arguments and, once made, its value

\* the state of the PermissionManager and of the MessageStreamer
manager_vars == <<pending, always_allowed, chat_id, pc, tool_name, request_id, result,
                  always_allow, event, ret, last_return, turns>>
streamer_vars == <<streamer, frames, telegram, display>>
util_vars == <<util>>

vars == <<manager_vars, streamer_vars, util_vars>>

\* ------------------------------------------------------------- helpers

\* the membership test left out: every call prompts
is_always_allowed_never(t) == FALSE

\* `tool_name in self._always_allowed`.  (add_always_allowed, the other
\* writer of the set, has no caller in the repository and is no action here.)
is_always_allowed(t) == t \in always_allowed

\* `if self._bot and self._chat_id`
has_telegram_context == chat_id # NoChat

\* str(uuid.uuid4())[:8]: a random token, taken here to differ from every
\* token generated before.  Tokens are opaque, so of the unused ones the
\* least stands for any of them.
issued == {request_id[c] : c \in Calls} \ {NoId}
new_request_ids ==
    LET unused == Ids \ issued
    IN {i \in unused : \A j \in unused : i <= j}

\* the pop left out
pop_pending_keeps(i) == pending

\* the whole dict cleared where one key is to be popped
pop_pending_clears(i) == [j \in Ids |-> NoCall]

\* self._pending.pop(request_id, None)
pop_pending(i) == [pending EXCEPT ![i] = NoCall]

\* the isinstance test on the result left out
adds_always_allowed_unchecked(c) == always_allow[c]

\* self._always_allowed.add(tool_name) under the guard of line 115
adds_always_allowed(c) == always_allow[c] /\ result[c].kind = "allow"

\* the value returned after the wait: pending.result if set, else a plain deny
return_value(c) ==
    IF result[c] # NoResult THEN result[c]
    ELSE PermissionResultDeny("Permission denied")

\* frames are numbered in the order of the calls: frame c is used once every
\* frame before it is
is_next_call(c) == \A d \in Calls : d < c => pc[d] # "idle"

\* no client made, no tool call made
NoTurns == [clients |-> {}, origin |-> [c \in Calls |-> NoChat]]

ManagerInit ==
    /\ pending = [i \in Ids |-> NoCall]
    /\ always_allowed = {}
    /\ chat_id = NoChat
    /\ pc = [c \in Calls |-> "idle"]
    /\ tool_name = [c \in Calls |-> ""]
    /\ request_id = [c \in Calls |-> NoId]
    /\ result = [c \in Calls |-> NoResult]
    /\ always_allow = [c \in Calls |-> FALSE]
    /\ event = [c \in Calls |-> FALSE]
    /\ ret = [c \in Calls |-> NoResult]
    /\ last_return = NoReturn
    /\ turns = NoTurns

\* ------------------------------------------------------------- actions

\* create_claude_options for a turn of the chat ch: `if bot and chat_id:
\* manager.set_telegram_context(bot, chat_id)` on the one manager that
\* get_permission_manager returns to every chat
set_telegram_context_for(ch) ==
    /\ chat_id' = ch
    /\ turns' = [turns EXCEPT !.clients = @ \cup {ch}]
    /\ UNCHANGED <<pending, always_allowed, pc, tool_name, request_id, result,
                   always_allow, event, ret, last_return, streamer_vars, util_vars>>

\* the same with one chat
set_telegram_context == set_telegram_context_for(TheChat)

\* request_permission from its entry to its first await or return, the
\* token of line 83 being one of `tokens`, called through
\* can_use_tool_callback by a turn of the chat ch (the call is given no chat).
request_permission_in(c, t, tokens, ch) ==
    /\ pc[c] = "idle"
    /\ is_next_call(c)
    /\ tool_name' = [tool_name EXCEPT ![c] = t]
    /\ turns' = [turns EXCEPT !.origin[c] = ch]
    /\ IF is_always_allowed(t)
       THEN /\ pc' = [pc EXCEPT ![c] = "returned"]
            /\ ret' = [ret EXCEPT ![c] = PermissionResultAllow]
            /\ UNCHANGED <<pending, request_id>>
       ELSE \E i \in tokens :
            /\ request_id' = [request_id EXCEPT ![c] = i]
            /\ pending' = [pending EXCEPT ![i] = c]
            /\ IF has_telegram_context
               THEN /\ pc' = [pc EXCEPT ![c] = "sending"]
                    /\ UNCHANGED ret
               ELSE /\ pc' = [pc EXCEPT ![c] = "returned"]
                    /\ ret' = [ret EXCEPT ![c] =
                                 PermissionResultDeny("No UI available for permission prompt")]
    /\ UNCHANGED <<always_allowed, chat_id, result, always_allow, event, last_return,
                   streamer_vars, util_vars>>

\* the same with one chat
request_permission_from(c, t, tokens) == request_permission_in(c, t, tokens, TheChat)

\* request_permission, its token differing from every token before it
request_permission(c, t) == request_permission_from(c, t, new_request_ids)

\* request_permission, its token being any value the 8 hex digits kept of
\* a uuid4 can take: the code looks no token up before it stores under it
request_permission_any_token(c, t) == request_permission_from(c, t, Ids)

\* _show_permission_prompt: bot.send_message returns; the frame goes on to
\* asyncio.wait_for(pending.event.wait(), 300).
send_message_ok(c) ==
    /\ pc[c] = "sending"
    /\ pc' = [pc EXCEPT ![c] = "waiting"]
    /\ UNCHANGED <<pending, always_allowed, chat_id, tool_name, request_id, result,
                   always_allow, event, ret, last_return, turns, streamer_vars, util_vars>>

\* _show_permission_prompt: bot.send_message raises; the except block sets
\* the result to deny and sets the event, then the frame goes on to
\* `await asyncio.wait_for(...)`.  That await is taken as a suspension point:
\* up to Python 3.11 wait_for wraps event.wait() in a task and yields to the
\* loop even when the event is already set (from 3.12 on it does not), and
\* the repository pins no version.
send_message_raises(c) ==
    /\ pc[c] = "sending"
    /\ result' = [result EXCEPT ![c] = PermissionResultDeny("Failed to show prompt")]
    /\ event' = [event EXCEPT ![c] = TRUE]
    /\ pc' = [pc EXCEPT ![c] = "waiting_unsent"]
    /\ UNCHANGED <<pending, always_allowed, chat_id, tool_name, request_id,
                   always_allow, ret, last_return, turns, streamer_vars, util_vars>>

\* frame c is suspended in asyncio.wait_for(pending.event.wait(), timeout=300.0)
in_wait_for(c) == pc[c] \in {"waiting", "waiting_unsent"}

\* The frame of call c ends after popping its entry: nothing refers to its
\* PendingPermission object any more (the dict held it under request_id[c]
\* only), and no code can read or write it.  Its fields go back to their
\* initial values, so that states that differ in garbage only are one state.
discard_object(c) ==
    /\ result' = [result EXCEPT ![c] = NoResult]
    /\ always_allow' = [always_allow EXCEPT ![c] = FALSE]
    /\ event' = [event EXCEPT ![c] = FALSE]

\* wait_for returns because the event is set: cleanup and return.
wait_returns(c) ==
    /\ in_wait_for(c)
    /\ event[c]
    /\ pending' = pop_pending(request_id[c])
    /\ always_allowed' = IF result[c] # NoResult /\ adds_always_allowed(c)
                         THEN always_allowed \cup {tool_name[c]}
                         ELSE always_allowed
    /\ ret' = [ret EXCEPT ![c] = return_value(c)]
    /\ pc' = [pc EXCEPT ![c] = "returned"]
    /\ discard_object(c)
    /\ UNCHANGED <<chat_id, tool_name, request_id, last_return, turns, streamer_vars, util_vars>>

\* wait_for raises asyncio.TimeoutError.  The timer is not stopped by
\* event.set(): it can still fire before the frame has resumed.
wait_times_out(c) ==
    /\ in_wait_for(c)
    /\ pending' = pop_pending(request_id[c])
    /\ ret' = [ret EXCEPT ![c] = PermissionResultDeny("Permission request timed out")]
    /\ pc' = [pc EXCEPT ![c] = "returned"]
    /\ discard_object(c)
    /\ UNCHANGED <<always_allowed, chat_id, tool_name, request_id, last_return,
                   turns, streamer_vars, util_vars>>

\* pending.result as handle_permission_response sets it for each action
result_for(a) ==
    IF a = "deny" THEN PermissionResultDeny("User denied permission")
    ELSE PermissionResultAllow

\* the confirmation returned on success (the tool name it ends with is left out)
confirmation_for(a) ==
    CASE a = "allow" -> "Allowed"
      [] a = "always" -> "Always allowed"
      [] a = "deny" -> "Denied"

\* an unknown id reported as a success
not_found_return_ok ==
    [op |-> "resolve", ok |-> TRUE, msg |-> "Permission request not found or expired",
     count |-> 0]

\* `return False, "Permission request not found or expired"`
not_found_return ==
    [op |-> "resolve", ok |-> FALSE, msg |-> "Permission request not found or expired",
     count |-> 0]

\* handle_permission_response(request_id, action): synchronous, called by
\* the callback-query handlers.
handle_permission_response(i, a) ==
    LET c == pending[i] IN
    IF c = NoCall
    THEN /\ last_return' = not_found_return
         /\ UNCHANGED <<pending, always_allowed, chat_id, pc, tool_name, request_id,
                        result, always_allow, event, ret, turns, streamer_vars, util_vars>>
    ELSE IF a \in {"allow", "always", "deny"}
    THEN /\ last_return' = [op |-> "resolve", ok |-> TRUE, msg |-> confirmation_for(a),
                            count |-> 0]
         /\ result' = [result EXCEPT ![c] = result_for(a)]
         /\ always_allow' = [always_allow EXCEPT ![c] =
                               IF a = "deny" THEN @ ELSE a = "always"]
         /\ event' = [event EXCEPT ![c] = TRUE]
         /\ UNCHANGED <<pending, always_allowed, chat_id, pc, tool_name, request_id,
                        ret, turns, streamer_vars, util_vars>>
    ELSE /\ last_return' = [op |-> "resolve", ok |-> FALSE, msg |-> "Unknown action",
                            count |-> 0]
         /\ UNCHANGED <<pending, always_allowed, chat_id, pc, tool_name, request_id,
                        result, always_allow, event, ret, turns, streamer_vars, util_vars>>

\* the objects stored in self._pending
pending_values == {pending[i] : i \in Ids} \ {NoCall}

\* cancel_all without `self._pending.clear()`
cancel_all_keeps_pending ==
    /\ last_return' = [op |-> "cancel_all", ok |-> TRUE, msg |-> "",
                       count |-> Cardinality({i \in Ids : pending[i] # NoCall})]
    /\ result' = [c \in Calls |-> IF c \in pending_values
                                  THEN PermissionResultDeny("Operation cancelled")
                                  ELSE result[c]]
    /\ event' = [c \in Calls |-> (c \in pending_values) \/ event[c]]
    /\ UNCHANGED <<pending, always_allowed, chat_id, pc, tool_name, request_id,
                   always_allow, ret, turns, streamer_vars, util_vars>>

\* cancel_all(): synchronous.
cancel_all ==
    /\ last_return' = [op |-> "cancel_all", ok |-> TRUE, msg |-> "",
                       count |-> Cardinality({i \in Ids : pending[i] # NoCall})]
    /\ result' = [c \in Calls |-> IF c \in pending_values
                                  THEN PermissionResultDeny("Operation cancelled")
                                  ELSE result[c]]
    /\ event' = [c \in Calls |-> (c \in pending_values) \/ event[c]]
    /\ pending' = [i \in Ids |-> NoCall]
    /\ UNCHANGED <<always_allowed, chat_id, pc, tool_name, request_id, always_allow,
                   ret, turns, streamer_vars, util_vars>>

\* The /cancel command and the cancel button with a client active
\* (handlers.py lines 237-247, callbacks.py lines 69-84): `await
\* client.interrupt()`, the client dropped from user_data and a reply sent.
\* Neither handler calls the manager.  What the SDK's interrupt does to the
\* turn's can_use_tool call is not code of the repository: each call in
\* flight goes on, or is cancelled at its await (CancelledError passes the
\* `except asyncio.TimeoutError` of line 105 and nothing is popped).
cancel ==
    /\ \E stopped \in SUBSET {c \in Calls : pc[c] \in {"sending", "waiting",
                                                       "waiting_unsent"}} :
          pc' = [c \in Calls |-> IF c \in stopped THEN "cancelled" ELSE pc[c]]
    /\ last_return' = [op |-> "cancel", ok |-> TRUE, msg |-> "Operation cancelled",
                       count |-> 0]
    /\ UNCHANGED <<pending, always_allowed, chat_id, tool_name, request_id, result,
                   always_allow, event, ret, turns, streamer_vars, util_vars>>

(***************************************************************************)
(* The markup helpers of src/src/utils/html.py and the truncation of        *)
(* src/src/claude/streaming.py.  A text is a sequence of one-character      *)
(* strings; positions are counted from 1 here and from 0 in the code.       *)
(***************************************************************************)

\* SUPPORTED_TAGS, as far as the names can be spelt with the model's letters
SUPPORTED_TAGS == {<<"b">>, <<"i">>}

\* the characters \w and "-" of TAG_PATTERN's name group, and \s
NameChars == {"b", "i", "x", "B"}
SpaceChars == {" ", "\n"}

\* str.lower() on the model's letters
lower_char(ch) == IF ch = "B" THEN "b" ELSE ch
lower(name) == [k \in 1..Len(name) |-> lower_char(name[k])]

\* text[a:b] of Python for 0 <= a, counted here as the characters a+1 .. b
slice(text, a, b) ==
    IF a >= Len(text) \/ b <= a THEN <<>>
    ELSE SubSeq(text, a + 1, IF b > Len(text) THEN Len(text) ELSE b)

\* text.find(ch) as a position from 1, 0 standing for -1; from position p on
find_from(text, ch, p) ==
    LET hits == {k \in p..Len(text) : text[k] = ch}
    IN IF hits = {} THEN 0 ELSE CHOOSE k \in hits : \A j \in hits : k <= j

find(text, ch) == find_from(text, ch, 1)

\* the length of the longest run of name characters that starts at q
RECURSIVE name_run(_, _)
name_run(text, q) ==
    IF q <= Len(text) /\ text[q] \in NameChars THEN 1 + name_run(text, q + 1) ELSE 0

\* one attempt of TAG_PATTERN = <(/?)([\w-]+)(?:\s[^>]*)?> at position p:
\* "<", an optional "/", the longest run of name characters (a shorter one
\* is followed by a name character, which neither ">" nor \s matches), then
\* ">" at once or a white space and everything up to the next ">".
no_match == [ok |-> FALSE, closing |-> FALSE, name |-> <<>>, end |-> 0]
tag_match(text, p) ==
    IF p > Len(text) \/ text[p] # "<" THEN no_match
    ELSE LET closing == p + 1 <= Len(text) /\ text[p + 1] = "/"
             q == IF closing THEN p + 2 ELSE p + 1
             n == name_run(text, q)
             r == q + n
             gt == find_from(text, ">", r)
         IN IF n = 0 \/ r > Len(text) THEN no_match
            ELSE IF text[r] = ">"
            THEN [ok |-> TRUE, closing |-> closing,
                  name |-> SubSeq(text, q, r - 1), end |-> r + 1]
            ELSE IF text[r] \in SpaceChars /\ gt # 0
            THEN [ok |-> TRUE, closing |-> closing,
                  name |-> SubSeq(text, q, r - 1), end |-> gt + 1]
            ELSE no_match

\* list.remove(x): the list without the first occurrence of x
remove_first(stack, name) ==
    LET k == CHOOSE k \in 1..Len(stack) :
                 stack[k] = name /\ \A j \in 1..(k - 1) : stack[j] # name
    IN SubSeq(stack, 1, k - 1) \o SubSeq(stack, k + 1, Len(stack))

\* a closing tag always taken to close the innermost open tag
close_tag_pops_top(stack, name) ==
    IF stack # <<>> THEN SubSeq(stack, 1, Len(stack) - 1) ELSE stack

\* find_open_tags, lines 47-53: what a closing tag does to the stack
close_tag(stack, name) ==
    IF stack # <<>> /\ stack[Len(stack)] = name
    THEN SubSeq(stack, 1, Len(stack) - 1)
    ELSE IF \E k \in 1..Len(stack) : stack[k] = name
    THEN remove_first(stack, name)
    ELSE stack

\* find_open_tags: the loop over TAG_PATTERN.finditer(text), from position
\* p on with the stack built so far
RECURSIVE open_tags_from(_, _, _)
open_tags_from(text, p, stack) ==
    IF p > Len(text) THEN stack
    ELSE LET m == tag_match(text, p)
             name == lower(m.name)
         IN IF ~m.ok THEN open_tags_from(text, p + 1, stack)
            ELSE IF name \notin SUPPORTED_TAGS THEN open_tags_from(text, m.end, stack)
            ELSE IF m.closing THEN open_tags_from(text, m.end, close_tag(stack, name))
            ELSE open_tags_from(text, m.end, Append(stack, name))

find_open_tags(text) == open_tags_from(text, 1, <<>>)

\* "".join(f"<{tag}>" for tag in tags)
RECURSIVE opening_tags(_)
opening_tags(tags) ==
    IF tags = <<>> THEN <<>>
    ELSE <<"<">> \o Head(tags) \o <<">">> \o opening_tags(Tail(tags))

\* "".join(f"</{tag}>" for tag in reversed(tags))
RECURSIVE closing_tags(_)
closing_tags(tags) ==
    IF tags = <<>> THEN <<>>
    ELSE closing_tags(Tail(tags)) \o <<"<", "/">> \o Head(tags) \o <<">">>

\* the text returned as it is
balance_tags_none(text) == text

\* balance_tags
balance_tags(text) == text \o closing_tags(find_open_tags(text))

\* a strip that removes nothing
strip_tags_none(text) == text

\* re.sub(r"<[^>]+>", "", text): every "<", at least one character other
\* than ">", and the next ">" removed, leftmost first
RECURSIVE strip_tags_from(_, _)
strip_tags_from(text, p) ==
    IF p > Len(text) THEN <<>>
    ELSE LET gt == find_from(text, ">", p + 1)
         IN IF text[p] = "<" /\ gt > p + 1
            THEN strip_tags_from(text, gt + 1)
            ELSE <<text[p]>> \o strip_tags_from(text, p + 1)

strip_tags(text) == strip_tags_from(text, 1)

\* tag_buffer = 60, and the 50 and 20 of lines 36-37
tag_buffer == 60
min_available == 50
small_tag_buffer == 20

\* the prefix _get_display_text passes: "[...]\n"
truncated_prefix == <<"[", ".", ".", ".", "]", "\n">>

\* safe_truncate_html, lines 33-37
available_for(max_length, prefix) ==
    LET available == max_length - Len(prefix) - tag_buffer
    IN IF available < min_available
       THEN max_length - Len(prefix) - small_tag_buffer
       ELSE available

\* safe_truncate_html, line 40, as a count of discarded characters
max_of(a, b) == IF a >= b THEN a ELSE b
truncate_point(text, max_length, prefix) ==
    max_of(0, Len(text) - available_for(max_length, prefix))

\* safe_truncate_html, lines 41-51: the suffix kept, its leading partial tag
\* dropped when a ">" comes before the first "<"
retained(text, max_length, prefix) ==
    LET truncated == slice(text, truncate_point(text, max_length, prefix), Len(text))
        first_gt == find(truncated, ">")
        first_lt == find(truncated, "<")
    IN IF first_lt # 0 /\ (first_gt = 0 \/ first_gt < first_lt) /\ first_gt # 0
       THEN slice(truncated, first_gt, Len(truncated))
       ELSE truncated

\* safe_truncate_html, lines 55-62: the tags open in the discarded prefix
reopened(text, max_length, prefix) ==
    LET tp == truncate_point(text, max_length, prefix)
    IN IF tp > 0 THEN opening_tags(find_open_tags(slice(text, 0, tp))) ELSE <<>>

safe_truncate_html(text, max_length, prefix) ==
    IF Len(text) <= max_length THEN text
    ELSE prefix \o balance_tags(reopened(text, max_length, prefix)
                                \o retained(text, max_length, prefix))

\* the view with `<` for the `<=` of lines 182 and 192: a text of exactly
\* chunk_size characters is truncated
get_display_text_strict(text, size, mode, fallback) ==
    IF mode = "HTML" /\ ~fallback
    THEN IF Len(text) < size THEN balance_tags(text)
         ELSE safe_truncate_html(text, size - 1, truncated_prefix)
    ELSE IF Len(text) < size THEN text
         ELSE truncated_prefix \o slice(text, max_of(0, Len(text) - (size - 10)), Len(text))

\* MessageStreamer._get_display_text for a buffer text, a chunk_size, a
\* parse_mode ("HTML" or "None") and the _fallback_to_plain flag
get_display_text(text, size, mode, fallback) ==
    IF mode = "HTML" /\ ~fallback
    THEN IF Len(text) <= size THEN balance_tags(text)
         ELSE safe_truncate_html(text, size, truncated_prefix)
    ELSE IF Len(text) <= size THEN text
         \* "[...]\n" and text[-(chunk_size - 10):]: the last chunk_size - 10
         \* characters, or the text from character 10 - chunk_size on when
         \* chunk_size is 10 or less
         ELSE truncated_prefix \o
              (IF size - 10 > 0
               THEN slice(text, max_of(0, Len(text) - (size - 10)), Len(text))
               ELSE slice(text, 10 - size, Len(text)))

(***************************************************************************)
(* The MessageStreamer of src/src/claude/streaming.py.                      *)
(*                                                                         *)
(* One streamer is used by one caller (the handler that streams a reply:    *)
(* it awaits each call before it makes the next) and by the _delayed_flush  *)
(* tasks the streamer creates.  An action is the stretch of one coroutine   *)
(* between two suspension points: the wait for the lock when it is taken,   *)
(* the sleep of a delayed flush, and the edit_text call.                    *)
(*                                                                         *)
(* Time is counted in ticks.  The streamer reads the clock only to compare  *)
(* now - _last_edit_time with throttle_ms, so the state keeps that          *)
(* difference (`elapsed`), counted up to Throttle, and for a sleeping task  *)
(* the ticks it still has to sleep.                                         *)
(***************************************************************************)

\* ------------------------------------------------------------- bounds
\* _delayed_flush tasks alive together
NTimers == 2
\* throttle_ms in ticks
Throttle == 2
\* append_text is not called with a text that makes the buffer longer
MaxTextLen == 4

Producer == 0
Timers == 1..NTimers
Frames == {Producer} \cup Timers
NoFrame == -1

\* chunk_size and parse_mode as the handlers construct the streamer
DefaultChunkSize == 3800
parse_mode == "HTML"

\* the arguments of the calls
Fragments == {<<"<", "b", ">">>, <<"x">>}
NoText == <<"None">>
FinalTexts == {NoText, <<"x">>}
SetTexts == {<<>>, <<"<", "b", ">">>}

\* what an edit_text call can end with: a return, BadRequest "not
\* modified", BadRequest "can't parse entities", another BadRequest,
\* TimedOut, and any other exception (NetworkError, RetryAfter, Forbidden)
Outcomes == {"ok", "not_modified", "parse_error", "bad_request", "timed_out", "error"}

NoEdit == [by |-> NoFrame, text |-> <<>>, view |-> <<>>, mode |-> "", attempt |-> 0]
NoDisplay == [called |-> FALSE, text |-> <<>>]

IdleFrame == [pc |-> "idle", op |-> "none", arg |-> <<>>, remaining |-> 0]
FreeTimer == [pc |-> "free", op |-> "delayed", arg |-> <<>>, remaining |-> 0]

\* no function of the utilities is being called
NoUtil == [fn |-> "none", done |-> FALSE]
UtilInit == util = NoUtil

\* MessageStreamer.__init__; time.time() lies more than throttle_ms after
\* the _last_edit_time of 0
StreamerInit ==
    /\ streamer = [current_text |-> <<>>, chunk_size |-> DefaultChunkSize,
                   fallback_to_plain |-> FALSE, pending_flush |-> FALSE,
                   elapsed |-> Throttle, lock_holder |-> NoFrame, lock_waiters |-> <<>>]
    /\ frames = [f \in Frames |-> IF f = Producer THEN IdleFrame ELSE FreeTimer]
    /\ telegram = [edit |-> NoEdit, pushed_by |-> "none", unpushed |-> FALSE]
    /\ display = NoDisplay

\* a lock that anyone can take at any time
lock_free_always == TRUE

\* asyncio.Lock: acquire() takes a free lock without suspending
lock_free == streamer.lock_holder = NoFrame /\ streamer.lock_waiters = <<>>

\* asyncio.Lock.release() at the end of `async with self._lock`: the first
\* waiter is woken and nobody can take the lock before it has run, which is
\* the lock passing to it.
released(s) ==
    IF s.lock_waiters = <<>> THEN [s EXCEPT !.lock_holder = NoFrame]
    ELSE [s EXCEPT !.lock_holder = Head(s.lock_waiters),
                   !.lock_waiters = Tail(s.lock_waiters)]

\* a set_text that appends to the buffer
after_op_set_text_appends(s, op, arg) ==
    CASE op \in {"append_text", "set_text"} -> [s EXCEPT !.current_text = @ \o arg]
      [] op = "finish" -> [s EXCEPT !.current_text = IF arg = NoText THEN @ ELSE arg,
                                    !.fallback_to_plain = FALSE]
      [] OTHER -> s

\* the assignments a call makes under the lock before it flushes
after_op(s, op, arg) ==
    CASE op = "append_text" -> [s EXCEPT !.current_text = @ \o arg]
      [] op = "set_text" -> [s EXCEPT !.current_text = arg]
      [] op = "finish" -> [s EXCEPT !.current_text = IF arg = NoText THEN @ ELSE arg,
                                    !.fallback_to_plain = FALSE]
      [] OTHER -> s

\* a delayed flush that wakes up and pushes nothing
wants_flush_not_delayed(s, op) ==
    CASE op = "append_text" -> s.elapsed >= Throttle
      [] op = "delayed" -> FALSE
      [] op = "set_text" -> FALSE
      [] OTHER -> TRUE

\* a finish that flushes only when the throttle period is over
wants_flush_throttles_finish(s, op) ==
    CASE op \in {"append_text", "finish"} -> s.elapsed >= Throttle
      [] op = "delayed" -> s.pending_flush
      [] op = "set_text" -> FALSE
      [] OTHER -> TRUE

\* whether the call goes on to _do_flush: _maybe_flush line 122, flush and
\* finish always, _delayed_flush line 133
wants_flush(s, op) ==
    CASE op = "append_text" -> s.elapsed >= Throttle
      [] op = "delayed" -> s.pending_flush
      [] op = "set_text" -> FALSE
      [] OTHER -> TRUE

\* a delayed flush created by every throttled append
schedules_each_time(s, op) == op = "append_text" /\ s.elapsed < Throttle

\* _maybe_flush lines 124-126
schedules(s, op) == op = "append_text" /\ s.elapsed < Throttle /\ ~s.pending_flush

\* the task asyncio.create_task starts: of the unused ones the least
free_timers == {t \in Timers : frames[t].pc = "free"}
new_timer == CHOOSE t \in free_timers : \A u \in free_timers : t <= u

\* the frame f once its coroutine has ended: the caller has its call
\* (`op` keeps which) returned or raised (the handlers make no further call
\* after an exception), a task is gone
ended(f, how) ==
    IF f = Producer
    THEN [IdleFrame EXCEPT !.pc = IF how = "raised" THEN "raised" ELSE "idle",
                           !.op = frames[f].op]
    ELSE FreeTimer

\* the edit_text call of _do_flush line 150
first_edit(f, s) ==
    [by |-> f, text |-> s.current_text,
     view |-> get_display_text(s.current_text, s.chunk_size, parse_mode,
                               s.fallback_to_plain),
     mode |-> IF s.fallback_to_plain THEN "None" ELSE parse_mode,
     attempt |-> 1]

\* Frame f holds the lock (s is the streamer with the lock taken) and runs
\* the body of `async with self._lock` for the call op(arg), up to its
\* edit_text call or, when it makes none, to its end.
run_locked(f, op, arg, s) ==
    LET s1 == after_op(s, op, arg)
        t1 == [telegram EXCEPT !.unpushed = @ \/ s1.current_text # s.current_text]
    IN
    IF wants_flush(s1, op) /\ s1.current_text # <<>>
    THEN /\ streamer' = s1
         /\ frames' = [frames EXCEPT ![f] = [@ EXCEPT !.pc = "editing", !.op = op,
                                                      !.arg = <<>>]]
         /\ telegram' = [t1 EXCEPT !.edit = first_edit(f, s1)]
    ELSE IF schedules(s1, op)
    THEN /\ free_timers # {}
         /\ streamer' = released([s1 EXCEPT !.pending_flush = TRUE])
         /\ frames' = [frames EXCEPT ![f] = [ended(f, "returned") EXCEPT !.op = op],
                                     ![new_timer] = [FreeTimer EXCEPT !.pc = "sleeping",
                                                                      !.remaining = Throttle]]
         /\ telegram' = t1
    ELSE /\ streamer' = released(s1)
         /\ frames' = [frames EXCEPT ![f] = [ended(f, "returned") EXCEPT !.op = op]]
         /\ telegram' = t1

\* `async with self._lock` of frame f for the call op(arg): into the body
\* when the lock is free, into the queue of the lock otherwise
enter(f, op, arg) ==
    IF lock_free
    THEN run_locked(f, op, arg, [streamer EXCEPT !.lock_holder = f])
    ELSE /\ streamer' = [streamer EXCEPT !.lock_waiters = Append(@, f)]
         /\ frames' = [frames EXCEPT ![f] = [@ EXCEPT !.pc = "lock_wait", !.op = op,
                                                      !.arg = arg]]
         /\ UNCHANGED telegram

\* ------------------------------------------------------------- actions

append_text(text) ==
    /\ frames[Producer].pc = "idle"
    /\ Len(streamer.current_text) + Len(text) <= MaxTextLen
    /\ enter(Producer, "append_text", text)
    /\ UNCHANGED <<display, manager_vars, util_vars>>

flush ==
    /\ frames[Producer].pc = "idle"
    /\ enter(Producer, "flush", <<>>)
    /\ UNCHANGED <<display, manager_vars, util_vars>>

finish(final_text) ==
    /\ frames[Producer].pc = "idle"
    /\ enter(Producer, "finish", final_text)
    /\ UNCHANGED <<display, manager_vars, util_vars>>

set_text(text) ==
    /\ frames[Producer].pc = "idle"
    /\ enter(Producer, "set_text", text)
    /\ UNCHANGED <<display, manager_vars, util_vars>>

\* a frame that waited for the lock has it and runs
lock_acquired(f) ==
    /\ frames[f].pc = "lock_wait"
    /\ streamer.lock_holder = f
    /\ run_locked(f, frames[f].op, frames[f].arg, streamer)
    /\ UNCHANGED <<display, manager_vars, util_vars>>

\* _delayed_flush: asyncio.sleep(throttle_ms / 1000) is over
delayed_flush_wakes(t) ==
    /\ frames[t].pc = "sleeping"
    /\ frames[t].remaining = 0
    /\ enter(t, "delayed", <<>>)
    /\ UNCHANGED <<display, manager_vars, util_vars>>

\* the frame f ends and leaves `async with self._lock`
leave(f, how, s) ==
    /\ streamer' = released(s)
    /\ frames' = [frames EXCEPT ![f] = ended(f, how)]

\* a frame whose edit_text raised anything that ends as if it had returned
how_ended_quiet(f, outcome) == "returned"

\* how _do_flush ends for the frame f when its first edit_text raises
\* something lines 153-174 do not handle: _delayed_flush swallows it (line
\* 135), append_text, flush and finish let it through
how_ended(f, outcome) ==
    IF outcome \in {"bad_request", "error"} /\ f # Producer THEN "returned"
    ELSE IF outcome \in {"bad_request", "error"} THEN "raised"
    ELSE "returned"

\* a "not modified" answer that leaves the flag as it is
after_not_modified_keeps(s) == s

\* _do_flush lines 156-158: BadRequest "not modified"
after_not_modified(s) == [s EXCEPT !.pending_flush = FALSE]

\* the edit_text call in flight ends with `outcome`; _do_flush lines 151-174
edit_text_returns(f, outcome) ==
    LET edit == telegram.edit IN
    /\ edit.by = f
    /\ IF outcome = "ok"
       THEN /\ leave(f, "returned",
                     [streamer EXCEPT !.elapsed = 0, !.pending_flush = FALSE])
            /\ telegram' = [edit |-> NoEdit, pushed_by |-> frames[f].op,
                            unpushed |-> edit.text # streamer.current_text]
       ELSE IF edit.attempt = 1 /\ outcome = "not_modified"
       THEN /\ leave(f, "returned", after_not_modified(streamer))
            /\ telegram' = [telegram EXCEPT !.edit = NoEdit]
       ELSE IF edit.attempt = 1 /\ outcome = "parse_error"
       THEN /\ streamer' = [streamer EXCEPT !.fallback_to_plain = TRUE]
            /\ frames' = [frames EXCEPT ![f] = [@ EXCEPT !.pc = "retrying"]]
            /\ telegram' = [telegram EXCEPT
                               !.edit = [edit EXCEPT !.view = strip_tags(edit.view),
                                                     !.mode = "None", !.attempt = 2]]
       ELSE /\ leave(f, IF edit.attempt = 1 THEN how_ended(f, outcome) ELSE "returned",
                     streamer)
            /\ telegram' = [telegram EXCEPT !.edit = NoEdit]
    /\ UNCHANGED <<display, manager_vars, util_vars>>

\* a tick of the clock
tick ==
    /\ \/ streamer.elapsed < Throttle
       \/ \E t \in Timers : frames[t].pc = "sleeping" /\ frames[t].remaining > 0
    /\ streamer' = [streamer EXCEPT !.elapsed = IF @ < Throttle THEN @ + 1 ELSE @]
    /\ frames' = [f \in Frames |->
                    IF frames[f].pc = "sleeping" /\ frames[f].remaining > 0
                    THEN [frames[f] EXCEPT !.remaining = @ - 1]
                    ELSE frames[f]]
    /\ UNCHANGED <<telegram, display, manager_vars, util_vars>>

\* The handler's `except Exception as e: await thinking_msg.edit_text(...)`
\* (handlers.py lines 526-527, command_handler.py lines 126-127): an
\* exception of a streamer call or of the agent's stream ends the turn, the
\* message the streamer edits is given the error text and the handler makes
\* no further call.  Nothing stops the _delayed_flush tasks.
error_reported ==
    /\ frames[Producer].pc \in {"idle", "raised"}
    /\ frames' = [frames EXCEPT ![Producer] = [@ EXCEPT !.pc = "done"]]
    /\ telegram' = [telegram EXCEPT !.pushed_by = "error"]
    /\ UNCHANGED <<streamer, display, manager_vars, util_vars>>

(***************************************************************************)
(* _get_display_text as a function of the streamer's fields: the buffer     *)
(* text, chunk_size and _fallback_to_plain are drawn from the sets below    *)
(* and the method is called once.                                           *)
(***************************************************************************)

\* a buffer text is up to MaxTokens of these pieces, after a padding
MaxTokens == 4
Tokens == {<<"<", "b", ">">>, <<"<", "/", "b", ">">>, <<"<", "i", ">">>,
           <<"x">>, <<"&", "x", ";">>}
PadLens == {0, 30}
ChunkSizes == {10, 30, 33}

RECURSIVE flatten(_)
flatten(pieces) ==
    IF pieces = <<>> THEN <<>> ELSE Head(pieces) \o flatten(Tail(pieces))

Bodies == {flatten(pieces) : pieces \in UNION {[1..n -> Tokens] : n \in 0..MaxTokens}}
padding(n) == [k \in 1..n |-> "x"]
Texts == {padding(n) \o body : n \in PadLens, body \in Bodies}

\* a streamer constructed with chunk_size, holding the text, its fallback
\* flag set or not
DisplayInit ==
    /\ ManagerInit
    /\ \E text \in Texts, size \in ChunkSizes, fallback \in BOOLEAN :
          streamer = [current_text |-> text, chunk_size |-> size,
                      fallback_to_plain |-> fallback, pending_flush |-> FALSE,
                      elapsed |-> Throttle, lock_holder |-> NoFrame,
                      lock_waiters |-> <<>>]
    /\ frames = [f \in Frames |-> IF f = Producer THEN IdleFrame ELSE FreeTimer]
    /\ telegram = [edit |-> NoEdit, pushed_by |-> "none", unpushed |-> FALSE]
    /\ display = NoDisplay
    /\ UtilInit

\* display_text = self._get_display_text()
call_get_display_text ==
    /\ ~display.called
    /\ display' = [called |-> TRUE,
                   text |-> get_display_text(streamer.current_text, streamer.chunk_size,
                                             parse_mode, streamer.fallback_to_plain)]
    /\ UNCHANGED <<streamer, frames, telegram, manager_vars, util_vars>>

(***************************************************************************)
(* smart_truncate (utils/html.py).  A line is known by its index in the     *)
(* list, and a string that "\n".join builds is written as the sequence of   *)
(* lines that split("\n") reads in it: the join of no line is one empty     *)
(* line.                                                                    *)
(***************************************************************************)

\* the lists have up to MaxLineCount lines
MaxLineCount == 9
LineCounts == 1..MaxLineCount
MaxLinesArgs == 1..MaxLineCount
Contexts == 0..3

\* the call of tests/test_html_utils.py with 100 lines, scaled to the
\* figures of the written scenario
Scenario == [n |-> 100, max_lines |-> 10, interesting |-> {10, 30, 50, 70}, context |-> 5]

content_line(i) == [kind |-> "line", n |-> i]
skip_line(k) == [kind |-> "skip", n |-> k]
last_skip_line(k) == [kind |-> "last_skip", n |-> k]
empty_line == [kind |-> "empty", n |-> 0]

\* "\n".join(parts)
joined(parts) == IF parts = <<>> THEN <<empty_line>> ELSE parts

\* lines[a:b] for 0 <= a
lines_between(a, b) == [k \in 1..max_of(0, b - a) |-> content_line(a + k - 1)]

min_of(a, b) == IF a <= b THEN a ELSE b

\* sorted(set(interesting))
RECURSIVE sorted(_)
sorted(S) ==
    IF S = {} THEN <<>>
    ELSE LET least == CHOOSE i \in S : \A j \in S : i <= j
         IN <<least>> \o sorted(S \ {least})

\* interesting[::2]
every_other(idxs) == [k \in 1..((Len(idxs) + 1) \div 2) |-> idxs[2 * k - 1]]

\* regions that end before the line after their index
regions_of_short(n, idxs, context) ==
    [k \in 1..Len(idxs) |->
        <<max_of(0, idxs[k] - context), min_of(n, idxs[k] + context)>>]

\* lines 324-328 and 369-373: the regions (start, end) around the indices
regions_of(n, idxs, context) ==
    [k \in 1..Len(idxs) |->
        <<max_of(0, idxs[k] - context), min_of(n, idxs[k] + context + 1)>>]

\* lines 330-336 and 374-378: regions that overlap or lie one line apart
\* become one
RECURSIVE merge_regions(_, _)
merge_regions(merged, regions) ==
    IF regions = <<>> THEN merged
    ELSE LET r == Head(regions)
             m == Len(merged)
         IN IF m > 0 /\ r[1] <= merged[m][2] + 1
            THEN merge_regions([merged EXCEPT ![m] = <<@[1], max_of(@[2], r[2])>>],
                               Tail(regions))
            ELSE merge_regions(Append(merged, r), Tail(regions))

\* regions left as they are
merged_regions_apart(n, idxs, context) == regions_of(n, idxs, context)

merged_regions(n, idxs, context) == merge_regions(<<>>, regions_of(n, idxs, context))

\* the end of the region before the k-th, 0 before the first
prev_end(merged, k) == IF k = 1 THEN 0 ELSE merged[k - 1][2]

RECURSIVE content_lines_from(_, _)
content_lines_from(merged, k) ==
    IF k > Len(merged) THEN 0
    ELSE (merged[k][2] - merged[k][1]) + content_lines_from(merged, k + 1)

\* lines 339-351: the lines of the regions and of the skip indicators
total_lines(n, merged) ==
    content_lines_from(merged, 1)
    + Cardinality({k \in 1..Len(merged) : merged[k][1] > prev_end(merged, k)})
    + (IF prev_end(merged, Len(merged) + 1) < n THEN 1 ELSE 0)

\* the loop of lines 322-383: the context is reduced to 0, then every other
\* index is dropped, once
RECURSIVE fitted_regions(_, _, _, _)
fitted_regions(n, max_lines, idxs, context) ==
    IF context < 0 THEN <<>>
    ELSE LET merged == merged_regions(n, idxs, context)
         IN IF total_lines(n, merged) <= max_lines THEN merged
            ELSE IF context > 0 THEN fitted_regions(n, max_lines, idxs, context - 1)
            ELSE IF Len(idxs) > 1 THEN merged_regions(n, every_other(idxs), 0)
            ELSE merged

\* lines 385-398: the regions, a skip indicator before each one that does
\* not start where the one before ended, and one after the last
RECURSIVE output_from(_, _, _)
output_from(n, merged, k) ==
    IF k > Len(merged)
    THEN IF prev_end(merged, k) < n
         THEN <<last_skip_line(n - prev_end(merged, k))>> ELSE <<>>
    ELSE (IF merged[k][1] > prev_end(merged, k)
          THEN <<skip_line(merged[k][1] - prev_end(merged, k))>> ELSE <<>>)
         \o lines_between(merged[k][1], merged[k][2])
         \o output_from(n, merged, k + 1)

\* lines 309-316: the head, one skip indicator, the tail
head_and_tail(n, max_lines) ==
    LET head_lines == (max_lines * 3) \div 5
        tail_lines == max_lines - head_lines - 1
        head == lines_between(0, min_of(head_lines, n))
        tail == IF tail_lines > 0 THEN lines_between(max_of(0, n - tail_lines), n) ELSE <<>>
    IN joined(head) \o <<skip_line(n - head_lines - tail_lines)>> \o joined(tail)

\* smart_truncate(lines, max_lines, interesting, context) for a list of n
\* lines and the set of the indices in `interesting`
smart_truncate(n, max_lines, interesting, context) ==
    IF n <= max_lines THEN joined(lines_between(0, n))
    ELSE IF interesting = {} THEN head_and_tail(n, max_lines)
    ELSE joined(output_from(n, fitted_regions(n, max_lines, sorted(interesting), context), 1))

\* the arguments of a call: a list of lines, max_lines, indices of lines
\* of the list and a context, or the call of the tests
truncate_call(args) == [fn |-> "smart_truncate", done |-> FALSE, args |-> args, ret |-> <<>>]

TruncateInit ==
    /\ ManagerInit /\ StreamerInit
    /\ \/ \E n \in LineCounts, m \in MaxLinesArgs, c \in Contexts :
             \E I \in SUBSET (0..(n - 1)) :
                util = truncate_call([n |-> n, max_lines |-> m, interesting |-> I,
                                      context |-> c])
       \/ util = truncate_call(Scenario)

call_smart_truncate ==
    /\ util.fn = "smart_truncate" /\ ~util.done
    /\ util' = [util EXCEPT !.done = TRUE,
                            !.ret = smart_truncate(util.args.n, util.args.max_lines,
                                                   util.args.interesting,
                                                   util.args.context)]
    /\ UNCHANGED <<manager_vars, streamer_vars>>

(***************************************************************************)
(* find_open_tags and balance_tags (utils/html.py) as functions of a text   *)
(* that is built from up to MaxTags pieces.                                 *)
(***************************************************************************)

MaxTags == 5

\* whole tags of the vocabulary, a tag outside it and a character of text
WholeTags == {<<"<", "b", ">">>, <<"<", "/", "b", ">">>, <<"<", "i", ">">>,
              <<"<", "/", "i", ">">>, <<"<", "x", ">">>, <<"x">>}

\* what a stream may have delivered so far: whole tags, text, a white space
\* and a tag that is cut after its name
StreamPieces == {<<"<", "b", ">">>, <<"<", "/", "b", ">">>, <<"<", "i", ">">>,
                 <<"<", "i">>, <<" ">>, <<"x">>}

pieces_of(set) == UNION {[1..n -> set] : n \in 0..MaxTags}

HtmlInit ==
    /\ ManagerInit /\ StreamerInit
    /\ \/ \E pieces \in pieces_of(WholeTags) :
             util = [fn |-> "find_open_tags", done |-> FALSE, args |-> pieces,
                     ret |-> <<>>]
       \/ \E pieces \in pieces_of(StreamPieces) :
             util = [fn |-> "balance_tags", done |-> FALSE, args |-> pieces,
                     ret |-> <<>>]

\* find_open_tags(text)
call_find_open_tags ==
    /\ util.fn = "find_open_tags" /\ ~util.done
    /\ util' = [util EXCEPT !.done = TRUE, !.ret = find_open_tags(flatten(util.args))]
    /\ UNCHANGED <<manager_vars, streamer_vars>>

\* balance_tags(text)
call_balance_tags ==
    /\ util.fn = "balance_tags" /\ ~util.done
    /\ util' = [util EXCEPT !.done = TRUE, !.ret = balance_tags(flatten(util.args))]
    /\ UNCHANGED <<manager_vars, streamer_vars>>

(***************************************************************************)
(* parse_callback_data (bot/callbacks.py): callback data is a string of     *)
(* up to MaxDataLen characters; the value returned is None or a string.     *)
(***************************************************************************)

MaxDataLen == 4

\* the characters of callback data: letters and the separator
DataChars == {"a", "p", ":"}
CallbackData == UNION {[1..n -> DataChars] : n \in 0..MaxDataLen}

\* str | None
None == <<>>
some(value) == <<value>>

\* a partition at the last separator, str.rpartition
partition_at_last(data, sep) ==
    LET hits == {k \in 1..Len(data) : data[k] = sep}
        k == CHOOSE k \in hits : \A j \in hits : j <= k
    IN <<SubSeq(data, 1, k - 1), <<sep>>, SubSeq(data, k + 1, Len(data))>>

\* data.partition(sep) for data that holds sep
partition(data, sep) ==
    LET k == find(data, sep)
    IN <<SubSeq(data, 1, k - 1), <<sep>>, SubSeq(data, k + 1, Len(data))>>

\* parse_callback_data(data)
parse_callback_data(data) ==
    IF \E k \in 1..Len(data) : data[k] = ":"
    THEN LET parts == partition(data, ":")
         IN [action |-> parts[1], value |-> some(parts[3])]
    ELSE [action |-> data, value |-> None]

CallbackInit ==
    /\ ManagerInit /\ StreamerInit
    /\ \E data \in CallbackData :
          util = [fn |-> "parse_callback_data", done |-> FALSE, args |-> data,
                  ret |-> [action |-> <<>>, value |-> None]]

\* action, value = parse_callback_data(query.data)
call_parse_callback_data ==
    /\ util.fn = "parse_callback_data" /\ ~util.done
    /\ util' = [util EXCEPT !.done = TRUE, !.ret = parse_callback_data(util.args)]
    /\ UNCHANGED <<manager_vars, streamer_vars>>

\* ------------------------------------------------------ specifications

\* the state after construction of the manager and of a streamer
Init == ManagerInit /\ StreamerInit /\ UtilInit

\* The PermissionManager.
Next ==
    \/ set_telegram_context
    \/ \E i \in Ids, a \in Actions : handle_permission_response(i, a)
    \/ cancel_all
    \/ \E c \in Calls, t \in Tools : request_permission(c, t)
    \/ \E c \in Calls : send_message_ok(c)
    \/ \E c \in Calls : send_message_raises(c)
    \/ \E c \in Calls : wait_returns(c)
    \/ \E c \in Calls : wait_times_out(c)

Spec == Init /\ [][Next]_vars

\* asyncio fires the timer of a running wait_for and resumes a frame whose
\* event is set; nothing makes bot.send_message return.
LiveSpec ==
    /\ Spec
    /\ \A c \in Calls : WF_vars(wait_times_out(c)) /\ WF_vars(wait_returns(c))

\* The manager with tokens that may repeat.
UuidNext ==
    \/ set_telegram_context
    \/ \E i \in Ids, a \in Actions : handle_permission_response(i, a)
    \/ cancel_all
    \/ \E c \in Calls, t \in Tools : request_permission_any_token(c, t)
    \/ \E c \in Calls : send_message_ok(c)
    \/ \E c \in Calls : send_message_raises(c)
    \/ \E c \in Calls : wait_returns(c)
    \/ \E c \in Calls : wait_times_out(c)

UuidSpec == Init /\ [][UuidNext]_vars

\* The manager and the interrupt of a turn.
InterruptNext == Next \/ cancel

InterruptSpec == Init /\ [][InterruptNext]_vars

\* The manager as the bot drives it for the turns of two chats: clients
\* are made, their turns ask for permission, the buttons are pressed.
ChatNext ==
    \/ \E ch \in Chats : set_telegram_context_for(ch)
    \/ \E i \in Ids, a \in Actions : handle_permission_response(i, a)
    \/ \E c \in Calls, t \in Tools, ch \in turns.clients :
          request_permission_in(c, t, new_request_ids, ch)
    \/ \E c \in Calls : send_message_ok(c)
    \/ \E c \in Calls : send_message_raises(c)
    \/ \E c \in Calls : wait_returns(c)
    \/ \E c \in Calls : wait_times_out(c)

ChatSpec == Init /\ [][ChatNext]_vars

\* The MessageStreamer.
StreamerNext ==
    \/ \E text \in Fragments : append_text(text)
    \/ flush
    \/ \E final_text \in FinalTexts : finish(final_text)
    \/ \E text \in SetTexts : set_text(text)
    \/ \E f \in Frames : lock_acquired(f)
    \/ \E t \in Timers : delayed_flush_wakes(t)
    \/ \E f \in Frames, outcome \in Outcomes : edit_text_returns(f, outcome)
    \/ tick

StreamerSpec == Init /\ [][StreamerNext]_vars

\* _get_display_text.
DisplayNext == call_get_display_text

DisplaySpec == DisplayInit /\ [][DisplayNext]_vars

\* smart_truncate.
TruncateNext == call_smart_truncate

TruncateSpec == TruncateInit /\ [][TruncateNext]_vars

\* find_open_tags and balance_tags.
HtmlNext == call_find_open_tags \/ call_balance_tags

HtmlSpec == HtmlInit /\ [][HtmlNext]_vars

\* parse_callback_data.
CallbackNext == call_parse_callback_data

CallbackSpec == CallbackInit /\ [][CallbackNext]_vars

\* The MessageStreamer as the handlers drive it: append_text and flush are
\* the only calls made on a streamer (handlers.py lines 463-524,
\* command_handler.py lines 100-124).
HandlerNext ==
    \/ \E text \in Fragments : append_text(text)
    \/ flush
    \/ \E f \in Frames : lock_acquired(f)
    \/ \E t \in Timers : delayed_flush_wakes(t)
    \/ \E f \in Frames, outcome \in Outcomes : edit_text_returns(f, outcome)
    \/ tick

HandlerSpec == Init /\ [][HandlerNext]_vars

\* A turn of the handlers to its end in an error.
TurnNext == HandlerNext \/ error_reported

TurnSpec == Init /\ [][TurnNext]_vars

\* The whole API in the order of one reply: appends and flushes, then at
\* most one set_text, then at most one finish.
streaming == frames[Producer].op \in {"none", "append_text", "flush"}

ReplyNext ==
    \/ streaming /\ \E text \in Fragments : append_text(text)
    \/ streaming /\ flush
    \/ streaming /\ \E text \in SetTexts : set_text(text)
    \/ frames[Producer].op # "finish" /\ \E final_text \in FinalTexts : finish(final_text)
    \/ \E f \in Frames : lock_acquired(f)
    \/ \E t \in Timers : delayed_flush_wakes(t)
    \/ \E f \in Frames, outcome \in Outcomes : edit_text_returns(f, outcome)
    \/ tick

ReplySpec == Init /\ [][ReplyNext]_vars

\* The handlers' calls with a UI that accepts every edit.
AcceptingNext ==
    \/ \E text \in Fragments : append_text(text)
    \/ flush
    \/ \E f \in Frames : lock_acquired(f)
    \/ \E t \in Timers : delayed_flush_wakes(t)
    \/ \E f \in Frames : edit_text_returns(f, "ok")
    \/ tick

\* Time passes, the event loop wakes a task whose sleep is over and a frame
\* the lock has passed to, and the UI answers an edit; the caller may stop
\* calling at any time.
StreamerLiveSpec ==
    /\ Init /\ [][AcceptingNext]_vars
    /\ WF_vars(tick)
    /\ \A t \in Timers : WF_vars(delayed_flush_wakes(t))
    /\ \A f \in Frames : WF_vars(lock_acquired(f)) /\ WF_vars(edit_text_returns(f, "ok"))


\* ------------------------------------------------------------- claims

in_flight(c) == pc[c] \in {"sending", "waiting", "waiting_unsent"}
returned(c) == pc[c] = "returned"
returns_now(c) == pc[c] # "returned" /\ pc'[c] = "returned"
TimedOutDeny == PermissionResultDeny("Permission request timed out")
CancelledDeny == PermissionResultDeny("Operation cancelled")

\* C1: the decision of a pending approval is set exactly once: once an
\* object's result is set no later step changes it for as long as the
\* object lives, and a resolve for the id of an object whose result is set
\* reports failure.
C1_DecisionSetExactlyOnce ==
    [][\A c \in Calls :
          (result[c] # NoResult /\ ~returns_now(c)) =>
              /\ result'[c] = result[c]
              /\ \A a \in Actions :
                    handle_permission_response(request_id[c], a) => ~last_return'.ok
      ]_vars

\* C2: every requestApproval call in flight eventually returns, whether
\* or not the UI answers and whether or not the prompt call returns.
C2_RequestAlwaysReturns ==
    \A c \in Calls : in_flight(c) ~> returned(c)

\* C3: once requestApproval has returned, the pending set holds no entry
\* for its request.
C3_ReturnedNotPending ==
    \A c \in Calls : returned(c) => c \notin pending_values

\* a step in which frame c makes its call
calls_now(c) == pc[c] = "idle" /\ pc'[c] # "idle"

\* the call of frame c took the always-allowed shortcut: it returned allow
\* in the step of the call (so bot.send_message was not called) and created
\* neither id nor entry
bypassed(c) ==
    /\ pc'[c] = "returned"
    /\ ret'[c] = PermissionResultAllow
    /\ request_id'[c] = NoId
    /\ pending' = pending

\* the call of frame c registered a new pending entry
registered(c) ==
    /\ request_id'[c] # NoId
    /\ pending[request_id'[c]] = NoCall
    /\ pending' = [pending EXCEPT ![request_id'[c]] = c]
    /\ ret'[c].kind # "allow"

\* C4 as stated: the call bypasses the prompt exactly when its tool is in
\* the always-allow set at call time; otherwise a pending entry is created
\* and a prompt is shown (bot.send_message is called).
C4_PromptUnlessAlwaysAllowed ==
    [][\A c \in Calls :
          calls_now(c) =>
              IF tool_name'[c] \in always_allowed
              THEN bypassed(c)
              ELSE registered(c) /\ pc'[c] = "sending"
      ]_vars

\* C4 amended: as above, but the prompt is sent only when a Telegram
\* context is set; with none the entry is created, no prompt is sent and
\* the call returns deny.
C4_BypassExactlyWhenAlwaysAllowed ==
    [][\A c \in Calls :
          calls_now(c) =>
              IF tool_name'[c] \in always_allowed
              THEN bypassed(c)
              ELSE /\ registered(c)
                   /\ IF chat_id # NoChat
                      THEN pc'[c] = "sending"
                      ELSE pc'[c] = "returned" /\ ret'[c].kind = "deny"
      ]_vars

\* a second call for an always-allowed tool went through without prompt,
\* id or entry
C4_Witness ==
    \E c, d \in Calls :
        /\ c # d
        /\ returned(c) /\ request_id[c] # NoId /\ ret[c] = PermissionResultAllow
        /\ tool_name[c] \in always_allowed
        /\ returned(d) /\ tool_name[d] = tool_name[c]
        /\ request_id[d] = NoId /\ ret[d] = PermissionResultAllow

\* C5: a wait that ends with no response (the event unset) returns deny
\* "timed out" and removes the entry; a resolve for the id of a timed-out
\* request reports "not found or expired".
C5_TimeoutDenies ==
    [][\A c \in Calls :
          /\ (in_wait_for(c) /\ ~event[c] /\ returns_now(c)) =>
                 /\ ret'[c] = TimedOutDeny
                 /\ pending'[request_id[c]] = NoCall
                 /\ always_allowed' = always_allowed
          /\ (returned(c) /\ ret[c] = TimedOutDeny) =>
                 \A a \in Actions :
                     handle_permission_response(request_id[c], a) =>
                         /\ ~last_return'.ok
                         /\ last_return'.msg = "Permission request not found or expired"
      ]_vars

\* a request timed out and a later resolve was refused
C5_Witness ==
    \E c \in Calls :
        /\ returned(c) /\ ret[c] = TimedOutDeny
        /\ last_return.op = "resolve" /\ ~last_return.ok

\* C6: a call made with no UI configured returns deny in the step of the
\* call; a call whose prompt could not be sent has its event set (its wait
\* ends without the timeout) and returns deny.
C6_NoUiDenies ==
    [][\A c \in Calls :
          /\ (calls_now(c) /\ chat_id = NoChat /\ tool_name'[c] \notin always_allowed) =>
                 pc'[c] = "returned" /\ ret'[c].kind = "deny"
          /\ pc[c] = "waiting_unsent" =>
                 /\ event[c]
                 /\ returns_now(c) => ret'[c].kind = "deny"
      ]_vars

\* C7: a resolve for an id that is not in the pending set returns
\* (False, "... not found or expired") and changes neither the pending set
\* nor any request's decision nor the always-allow set.  (Stated as: a step
\* either is such a refusal, or is no resolve of an absent id.)
C7_UnknownIdRefused ==
    [][\/ /\ last_return'.op = "resolve"
          /\ last_return'.ok = FALSE
          /\ last_return'.msg = "Permission request not found or expired"
          /\ pending' = pending
          /\ result' = result /\ always_allow' = always_allow /\ event' = event
          /\ always_allowed' = always_allowed
          /\ pc' = pc /\ ret' = ret
       \/ \A i \in Ids : pending[i] = NoCall =>
              \A a \in Actions : ~handle_permission_response(i, a)
      ]_vars

\* a resolve was refused for the id of a request that had been answered and
\* had returned, while another request was still pending
C7_Witness ==
    /\ last_return.op = "resolve" /\ ~last_return.ok
    /\ \E c, d \in Calls :
          /\ returned(c) /\ request_id[c] # NoId /\ pending[request_id[c]] = NoCall
          /\ ret[c] = PermissionResultAllow
          /\ d \in pending_values /\ result[d] = NoResult

\* C8: cancel_all sets every pending entry to deny "Operation cancelled",
\* sets its event, empties the pending set and returns how many entries
\* there were; a call in flight whose entry was cancelled keeps a deny
\* result and returns deny.
C8_CancelAllDenies ==
    [][/\ \/ /\ last_return'.op = "cancel_all"
             /\ last_return'.count = Cardinality({i \in Ids : pending[i] # NoCall})
             /\ \A i \in Ids : pending'[i] = NoCall
             /\ \A c \in pending_values : result'[c] = CancelledDeny /\ event'[c]
          \/ ~cancel_all
       /\ \A c \in Calls :
              (in_flight(c) /\ c \notin pending_values) =>
                  /\ result[c].kind = "deny" /\ event[c]
                  /\ ~returns_now(c) => result'[c].kind = "deny"
                  /\ c \notin {pending'[i] : i \in Ids}
                  /\ returns_now(c) => ret'[c].kind = "deny"
      ]_vars

\* two requests were pending together, cancel_all returned 2 and one of
\* the calls has returned the cancellation
C8_Witness ==
    /\ last_return.op = "cancel_all" /\ last_return.count = 2
    /\ \E c \in Calls : returned(c) /\ ret[c] = CancelledDeny

entry(c) == <<result[c], always_allow[c], event[c], pc[c], ret[c]>>

\* C10: requests pending together are independent: a resolve for the id
\* of a pending request writes that request's object only, with the
\* decision it was given, and leaves the pending set as it is, a
\* timeout removes only its own entry, and a call that resumes returns the
\* decision held by its own object.
C10_PendingIndependent ==
    [][/\ \A i \in Ids :
              pending[i] # NoCall =>
                  \A a \in Actions :
                      handle_permission_response(i, a) =>
                          /\ pending' = pending
                          /\ \A d \in Calls : d # pending[i] => entry(d)' = entry(d)
                          /\ result'[pending[i]] =
                                 (IF a = "deny"
                                  THEN PermissionResultDeny("User denied permission")
                                  ELSE PermissionResultAllow)
       /\ \A c \in Calls :
              (in_flight(c) /\ returns_now(c)) =>
                  /\ \A d \in Calls : d # c => entry(d)' = entry(d)
                  /\ \A i \in Ids : pending[i] # c => pending'[i] = pending[i]
                  /\ (event[c] /\ ret'[c] # TimedOutDeny) => ret'[c] = result[c]
      ]_vars

\* two requests were pending together and were answered in the reverse
\* order with different decisions; each call returned its own
C10_Witness ==
    /\ returned(1) /\ returned(2)
    /\ ret[1] = PermissionResultDeny("User denied permission")
    /\ ret[2] = PermissionResultAllow

\* C11: the id given to a new pending approval is unique among the
\* approvals pending at that moment: the call that registers a request
\* stores it under an id that holds no entry, and every entry present before
\* the call is still there, under its id, after it.
C11_NewIdUniqueAmongPending ==
    [][\A c \in Calls :
          (calls_now(c) /\ request_id'[c] # NoId) =>
              /\ pending[request_id'[c]] = NoCall
              /\ \A i \in Ids : pending[i] # NoCall => pending'[i] = pending[i]
      ]_vars

\* ---------------------------------------------------- streamer claims

\* the _delayed_flush tasks that are in their sleep
sleeping == {t \in Timers : frames[t].pc = "sleeping"}
\* C12: for one render buffer at most one delayed-flush timer is in flight
\* at any time: no two _delayed_flush tasks sleep together, and a throttled
\* append creates a task only when none sleeps.
C12_OneDelayedFlushTimer == Cardinality(sleeping) <= 1

\* the push that has just been accepted was made by append_text or by a
\* delayed flush, and so was the one before it
throttled_ops == {"append_text", "delayed"}
push_accepted(f) ==
    /\ telegram.edit.by = f
    /\ telegram'.edit = NoEdit
    /\ streamer'.elapsed = 0
    /\ telegram'.pushed_by = frames[f].op

\* C13: two successive accepted pushes made by append_text or by the
\* delayed flush are at least the throttle interval apart: when the later
\* one is accepted, throttle_ms have passed since the earlier one was.
C13_PushesThrottled ==
    [][\A f \in Frames :
          (push_accepted(f) /\ frames[f].op \in throttled_ops
                            /\ telegram.pushed_by \in throttled_ops) =>
              streamer.elapsed >= Throttle
      ]_vars

\* the frames that are in an edit_text call
editing == {f \in Frames : frames[f].pc \in {"editing", "retrying"}}

C15_ThrottledTextPushed ==
    (/\ frames[Producer].pc = "idle" /\ frames[Producer].op = "append_text"
     /\ streamer.pending_flush /\ telegram.unpushed)
        ~> (~telegram.unpushed \/ streamer.current_text = <<>>)

\* a delayed flush has pushed the whole buffer, two fragments long
C15_Witness ==
    /\ telegram.pushed_by = "delayed"
    /\ ~telegram.unpushed
    /\ Len(streamer.current_text) >= 2
    /\ frames[Producer].pc = "idle"

\* ----------------------------------------------------- display claims

\* the number of TAG_PATTERN matches in text, from position p on, that are
\* tags `name`, closing or opening
RECURSIVE count_tags_from(_, _, _, _)
count_tags_from(text, p, name, closing) ==
    IF p > Len(text) THEN 0
    ELSE LET m == tag_match(text, p)
         IN IF ~m.ok THEN count_tags_from(text, p + 1, name, closing)
            ELSE (IF lower(m.name) = name /\ m.closing = closing THEN 1 ELSE 0)
                 + count_tags_from(text, m.end, name, closing)

\* every supported tag has as many openers as closers
tags_balanced(text) ==
    \A name \in SUPPORTED_TAGS :
        count_tags_from(text, 1, name, FALSE) = count_tags_from(text, 1, name, TRUE)

\* the text whose view was computed fits chunk_size, or does not
fits == Len(streamer.current_text) <= streamer.chunk_size
view_of_short_text == display.called /\ fits
view_of_long_text == display.called /\ ~fits

C17_LongViewFitsAndIsBalanced ==
    (view_of_long_text /\ ~streamer.fallback_to_plain) =>
        /\ Len(display.text) <= streamer.chunk_size
        /\ tags_balanced(display.text)

\* position k of the text lies inside a tag (after its "<", up to its ">")
\* or inside a character entity (after its "&", up to its ";")
inside_tag(text, k) ==
    \E p \in 1..(k - 1), q \in k..Len(text) :
        /\ text[p] = "<" /\ text[q] = ">"
        /\ \A j \in (p + 1)..(q - 1) : text[j] \notin {"<", ">"}
inside_entity(text, k) ==
    \E p \in 1..(k - 1), q \in k..Len(text) :
        /\ text[p] = "&" /\ text[q] = ";"
        /\ \A j \in (p + 1)..(q - 1) : text[j] \in NameChars

\* the position in the text of the first character of the retained suffix
first_retained(text, size) ==
    Len(text) - Len(retained(text, size, truncated_prefix)) + 1

\* C18: the point at which the text is cut is never strictly inside a
\* <...> span or a &...; span: the retained suffix, with which the
\* truncated view goes on after the indicator and the re-opened tags, does
\* not begin with the rest of a tag or of a character entity.
C18_CutNotInsideTagOrEntity ==
    (view_of_long_text /\ ~streamer.fallback_to_plain) =>
        LET text == streamer.current_text
            k == first_retained(text, streamer.chunk_size)
        IN k <= Len(text) => ~inside_tag(text, k) /\ ~inside_entity(text, k)

\* ------------------------------------------------ push failure claims

\* no <...> span is left in the text
no_markup(text) ==
    ~\E p \in 1..Len(text), q \in 1..Len(text) :
        /\ p + 1 < q /\ text[p] = "<" /\ text[q] = ">"
        /\ \A j \in (p + 1)..(q - 1) : text[j] # ">"

\* the step of frame f: its first edit is answered "can't parse entities"
retries_plain(f) ==
    /\ streamer'.fallback_to_plain
    /\ streamer'.current_text = streamer.current_text
    /\ streamer'.lock_holder = f
    /\ frames'[f].pc = "retrying"
    /\ telegram'.edit.attempt = 2 /\ telegram'.edit.mode = "None"
    /\ telegram'.edit.view = strip_tags(telegram.edit.view)
    /\ no_markup(telegram'.edit.view)

\* the step of frame f: its retry fails
gives_up(f) ==
    /\ frames'[f].pc \in {"idle", "free"}
    /\ telegram'.edit = NoEdit
    /\ streamer'.current_text = streamer.current_text
    /\ streamer'.fallback_to_plain = streamer.fallback_to_plain
    /\ streamer'.pending_flush = streamer.pending_flush

C20_PushFailureNotSurfaced == frames[Producer].pc # "raised"

\* the step of frame f: its flush ends as after a success, with no retry
treated_as_success(f) ==
    /\ frames'[f].pc \in {"idle", "free"}
    /\ telegram'.edit = NoEdit
    /\ ~streamer'.pending_flush
    /\ streamer'.fallback_to_plain = streamer.fallback_to_plain
    /\ streamer'.current_text = streamer.current_text

body_of(op, arg) ==
    \/ /\ frames[Producer].pc = "idle" /\ lock_free
       /\ enter(Producer, op, arg)
    \/ /\ frames[Producer].pc = "lock_wait"
       /\ frames[Producer].op = op /\ frames[Producer].arg = arg
       /\ lock_acquired(Producer)

\* the text finish(final_text) leaves in the buffer
text_after_finish(final_text) ==
    IF final_text = NoText THEN streamer.current_text ELSE final_text

\* the step sends the edit of a flush of the caller, with markup
pushes_with_markup(text) ==
    /\ frames'[Producer].pc = "editing"
    /\ telegram'.edit.by = Producer /\ telegram'.edit.attempt = 1
    /\ telegram'.edit.text = text /\ telegram'.edit.mode = parse_mode
    /\ telegram'.edit.view = get_display_text(text, streamer.chunk_size, parse_mode, FALSE)

\* C22 as stated: finish(finalText?) replaces the buffer with finalText when
\* one is given, resets fallbackPlain and pushes, whatever the throttle
\* state, the pending-flush flag and the buffer content.
C22_FinishPushesAlways ==
    [][\A final_text \in FinalTexts :
          \/ /\ streamer'.current_text = text_after_finish(final_text)
             /\ ~streamer'.fallback_to_plain
             /\ pushes_with_markup(text_after_finish(final_text))
          \/ ~body_of("finish", final_text)]_vars

\* C22 amended: finish(finalText?) replaces the buffer with finalText when
\* one is given, resets fallbackPlain and, whatever the throttle state and
\* the pending-flush flag, pushes the buffer with markup when it is not
\* empty; with an empty buffer it pushes nothing and returns.
C22_FinishPushesUnlessEmpty ==
    [][\A final_text \in FinalTexts :
          \/ /\ streamer'.current_text = text_after_finish(final_text)
             /\ ~streamer'.fallback_to_plain
             /\ IF text_after_finish(final_text) # <<>>
                THEN pushes_with_markup(text_after_finish(final_text))
                ELSE /\ frames'[Producer].pc = "idle"
                     /\ telegram'.edit = telegram.edit
          \/ ~body_of("finish", final_text)]_vars

\* the push of a finish is in flight inside the throttle period, a delayed
\* flush still pending
C22_Witness ==
    /\ frames[Producer].pc = "editing" /\ frames[Producer].op = "finish"
    /\ telegram.edit.by = Producer /\ telegram.edit.mode = parse_mode
    /\ streamer.elapsed < Throttle /\ streamer.pending_flush

\* C23: setText(text) replaces the buffer text and nothing else: it pushes
\* no edit, schedules no delayed flush and leaves the time of the last
\* push, the pending-flush flag and fallbackPlain as they were.
C23_SetTextOnlyReplaces ==
    [][\A text \in SetTexts :
          \/ /\ streamer'.current_text = text
             /\ streamer'.elapsed = streamer.elapsed
             /\ streamer'.pending_flush = streamer.pending_flush
             /\ streamer'.fallback_to_plain = streamer.fallback_to_plain
             /\ streamer'.chunk_size = streamer.chunk_size
             /\ telegram'.edit = telegram.edit
             /\ telegram'.pushed_by = telegram.pushed_by
             /\ frames'[Producer].pc = "idle"
             /\ \A t \in Timers : frames'[t] = frames[t]
          \/ ~body_of("set_text", text)]_vars

\* set_text("<b>") has returned inside the throttle period on a buffer of
\* another text: the text is replaced and not pushed, nothing is in flight
C23_Witness ==
    /\ frames[Producer].pc = "idle" /\ frames[Producer].op = "set_text"
    /\ streamer.current_text = <<"<", "b", ">">>
    /\ telegram.unpushed /\ telegram.edit = NoEdit
    /\ telegram.pushed_by = "append_text"
    /\ streamer.elapsed < Throttle

\* ------------------------------------------------- smart_truncate claims

truncated == util.fn = "smart_truncate" /\ util.done
too_long == util.args.n > util.args.max_lines
anchors == sorted(util.args.interesting)

\* the lines the regions and their skip indicators take with this context
lines_needed(context) ==
    total_lines(util.args.n, merged_regions(util.args.n, anchors, context))

\* halving these indices again and again, down to one, meets the budget at
\* context 0
RECURSIVE halving_fits(_)
halving_fits(idxs) ==
    \/ total_lines(util.args.n, merged_regions(util.args.n, idxs, 0)) <= util.args.max_lines
    \/ Len(idxs) > 1 /\ halving_fits(every_other(idxs))

\* C24: with interesting indices and more lines than max_lines the output
\* has at most max_lines lines: the context is reduced to 0 and the indices
\* are then halved, every other one kept, until the budget is met or one
\* index is left.  (Stated for the calls in which that halving does meet
\* the budget.)
C24_WithinMaxLines ==
    (/\ truncated /\ too_long /\ util.args.interesting # {}
     /\ halving_fits(anchors))
        => Len(util.ret) <= util.args.max_lines

shown == {util.ret[k].n : k \in {j \in 1..Len(util.ret) : util.ret[j].kind = "line"}}

\* C25: whenever the budget is met by reducing the context alone the output
\* contains the line at every interesting index; the call with 100 lines,
\* max_lines 10, indices 10, 30, 50, 70 and context 5 returns at most 10
\* lines with the lines 10, 30, 50 and 70 among them.
C25_AnchorsShown ==
    truncated =>
        /\ (/\ util.args.interesting # {}
            /\ \/ ~too_long
               \/ \E context \in 0..util.args.context :
                      lines_needed(context) <= util.args.max_lines)
               => util.args.interesting \subseteq shown
        /\ util.args = Scenario =>
               Len(util.ret) <= 10 /\ {10, 30, 50, 70} \subseteq shown

\* the call of the scenario has returned: four lines and five indicators
C25_Witness ==
    /\ truncated /\ util.args = Scenario
    /\ Len(util.ret) = 9 /\ shown = {10, 30, 50, 70}

\* C26: with more lines than max_lines and no interesting index the output
\* is the first floor(0.6 * max_lines) lines, one skip indicator and the
\* last max_lines - head - 1 lines: max_lines lines in all, for every
\* max_lines >= 1, the indicator stating the number of lines that are in
\* neither part.
C26_HeadAndTail ==
    (truncated /\ too_long /\ util.args.interesting = {}) =>
        LET head == (util.args.max_lines * 3) \div 5
            tail == util.args.max_lines - head - 1
        IN /\ Len(util.ret) = util.args.max_lines
           /\ util.ret = lines_between(0, head)
                         \o <<skip_line(util.args.n - head - tail)>>
                         \o lines_between(util.args.n - tail, util.args.n)

\* the input lines the first k lines of the output stand for
RECURSIVE covered(_, _)
covered(out, k) ==
    IF k = 0 THEN 0
    ELSE covered(out, k - 1) + (IF out[k].kind = "line" THEN 1 ELSE out[k].n)

\* C27: in the output for interesting indices inside the list every skip
\* indicator states the number of lines left out where it stands, the
\* regions come in ascending order without overlap, the lines shown and the
\* counts of the indicators add up to the number of lines, an indicator
\* stands before a region exactly when lines are left out before it and at
\* the end exactly when the last region does not reach the last line.
C27_SkipCountsExact ==
    (truncated /\ util.args.interesting # {}) =>
        /\ covered(util.ret, Len(util.ret)) = util.args.n
        /\ \A k \in 1..Len(util.ret) :
              CASE util.ret[k].kind = "line" ->
                       util.ret[k].n = covered(util.ret, k - 1)
                [] util.ret[k].kind = "skip" ->
                       /\ util.ret[k].n >= 1
                       /\ k < Len(util.ret) /\ util.ret[k + 1].kind = "line"
                [] util.ret[k].kind = "last_skip" ->
                       util.ret[k].n >= 1 /\ k = Len(util.ret)
                [] OTHER -> FALSE

\* an output of two regions with lines left out before, between and after
C27_Witness ==
    /\ truncated /\ too_long /\ Len(util.ret) = 5
    /\ util.ret[1].kind = "skip" /\ util.ret[3].kind = "skip"
    /\ util.ret[3].n >= 2 /\ util.ret[5].kind = "last_skip"

\* ------------------------------------------------------ find_open_tags and balance_tags claims

\* balance_tags has returned
balanced == util.fn = "balance_tags" /\ util.done

\* the closing tags of a stack, the last opened first
closers_lifo(stack) ==
    LET RECURSIVE from(_)
        from(k) == IF k = 0 THEN <<>>
                   ELSE <<"<", "/">> \o stack[k] \o <<">">> \o from(k - 1)
    IN from(Len(stack))

\* C28: for every text x, balance(x) has no open tag and balancing it again
\* changes nothing, texts that end in the middle of a tag included;
\* balance(x) is x followed by the closing tags of its open tags, the last
\* opened first, and is x itself when x has no open tag.
C28_BalanceClosesEverything ==
    balanced =>
        LET x == flatten(util.args)
        IN /\ find_open_tags(util.ret) = <<>>
           /\ balance_tags(util.ret) = util.ret
           /\ util.ret = x \o closers_lifo(find_open_tags(x))
           /\ find_open_tags(x) = <<>> => util.ret = x

\* find_open_tags has returned for a text of at least one piece
scanned == util.fn = "find_open_tags" /\ util.done /\ util.args # <<>>

\* the last piece of the text and the stack of the text before it
last_piece == util.args[Len(util.args)]
stack_before == find_open_tags(flatten(SubSeq(util.args, 1, Len(util.args) - 1)))

is_closer(piece) == Len(piece) = 4 /\ piece[1] = "<" /\ piece[2] = "/"
is_opener(piece) == Len(piece) = 3 /\ piece[1] = "<"
named(piece) == IF is_closer(piece) THEN <<piece[3]>> ELSE <<piece[2]>>
is_supported(piece) ==
    (is_opener(piece) \/ is_closer(piece)) /\ named(piece) \in {<<"b">>, <<"i">>}

\* the stack without its k-th entry
without(stack, k) == [j \in 1..(Len(stack) - 1) |-> IF j < k THEN stack[j] ELSE stack[j + 1]]
occurrences(stack, name) == {k \in 1..Len(stack) : stack[k] = name}

\* C29: find_open_tags returns the supported tags opened and not closed, in
\* opening order: with the stack S of the text before its last piece, an
\* opening tag gives S with the tag appended; a closing tag gives S without
\* its top when the top is that tag, otherwise S without the first
\* occurrence of the tag, and S itself when the tag is not in S; any other
\* piece gives S; the empty text gives the empty stack.
C29_StackRules ==
    /\ util.fn = "find_open_tags" /\ util.done /\ util.args = <<>> => util.ret = <<>>
    /\ scanned =>
         LET S == stack_before
             t == named(last_piece)
             occ == occurrences(S, t)
         IN IF ~is_supported(last_piece) THEN util.ret = S
            ELSE IF is_opener(last_piece) THEN util.ret = Append(S, t)
            ELSE IF occ = {} THEN util.ret = S
            ELSE IF S[Len(S)] = t THEN util.ret = without(S, Len(S))
            ELSE util.ret = without(S, CHOOSE k \in occ : \A j \in occ : k <= j)

\* a closing tag that is neither on top nor absent: it occurs twice in the
\* stack and the first occurrence is removed
C29_Witness ==
    /\ scanned /\ is_closer(last_piece) /\ is_supported(last_piece)
    /\ Cardinality(occurrences(stack_before, named(last_piece))) = 2
    /\ stack_before[Len(stack_before)] # named(last_piece)
    /\ util.ret = <<<<"i">>, <<"b">>, <<"i">>>>

\* ------------------------------------------------------ parse_callback_data claims

\* parse_callback_data has returned
parsed == util.fn = "parse_callback_data" /\ util.done

has_colon(text) == \E k \in 1..Len(text) : text[k] = ":"

\* C30: the data is split on the first colon only: whenever the data is an
\* action without a colon, a colon and a value (empty or with colons of its
\* own), the call returns that action and that value; data without a colon
\* is returned as the action, with no value.
C30_SplitOnFirstColon ==
    parsed =>
        /\ \A k \in 1..Len(util.args) :
              LET action == SubSeq(util.args, 1, k - 1)
                  value == SubSeq(util.args, k + 1, Len(util.args))
              IN util.args[k] = ":" /\ ~has_colon(action) =>
                     util.ret = [action |-> action, value |-> some(value)]
        /\ ~has_colon(util.args) => util.ret = [action |-> util.args, value |-> None]

\* a value that holds a colon of its own
C30_Witness ==
    /\ parsed /\ util.ret.value # None
    /\ util.ret.action # <<>> /\ has_colon(util.ret.value[1])

\* ------------------------------------------------------ approvals and their chats

\* the result the object of frame c holds was written by a successful
\* handle_permission_response (the other writers set other messages)
resolved(c) ==
    /\ in_wait_for(c) /\ event[c]
    /\ result[c] \in {result_for(a) : a \in Actions}

\* C31: when a resolve has reported success, the call waiting on the id
\* returns the decision of that resolve, whatever happens before the waiter
\* resumes: the decision written stays as it is until the call returns,
\* the call returns it, and after allow-always the tool is in the
\* always-allow set when the call returns.
C31_ResolvedDecisionReturned ==
    [][\A c \in Calls :
          resolved(c) =>
              IF returns_now(c)
              THEN /\ ret'[c] = result[c]
                   /\ (always_allow[c] /\ result[c].kind = "allow")
                          => tool_name[c] \in always_allowed'
              ELSE /\ result'[c] = result[c]
                   /\ always_allow'[c] = always_allow[c]
      ]_vars

\* ------------------------------------------------------ the flag, the fallback and the truncated view

\* the _delayed_flush tasks that exist: asleep, waiting for the lock or
\* flushing
delayed_flushes == {t \in Timers : frames[t].pc # "free"}

\* C33: the pending-flush flag is true exactly while a delayed flush is
\* pending: in every state the flag is set if and only if one delayed-flush
\* task of the streamer exists.
C33_FlagIffDelayedFlushPending ==
    streamer.pending_flush <=> Cardinality(delayed_flushes) = 1

\* C34: once a parse error has set the fallback flag, every view pushed
\* while the flag is set is plain text without markup: the retry and every
\* later edit hold no tag.
C34_FallbackViewsArePlain ==
    (streamer.fallback_to_plain /\ telegram.edit.by # NoFrame) =>
        strip_tags(telegram.edit.view) = telegram.edit.view

\* _get_display_text has returned the view of a text longer than chunk_size
\* in markup mode
view_truncated ==
    /\ display.called /\ ~streamer.fallback_to_plain
    /\ Len(streamer.current_text) > streamer.chunk_size

\* C35: a truncated view is the prefix "[...]\n", then the tags that
\* find_open_tags reports as open in the discarded prefix of the text, in
\* their nesting order, then the retained suffix of the text (closed by
\* balance_tags): the text splits into a discarded prefix and a retained
\* suffix for which the view is built so.
C35_ReopensTagsOfDiscardedPrefix ==
    view_truncated =>
        \E k \in 1..Len(streamer.current_text) :
            LET discarded == SubSeq(streamer.current_text, 1, k)
                kept == SubSeq(streamer.current_text, k + 1, Len(streamer.current_text))
            IN display.text =
                   truncated_prefix \o
                   balance_tags(opening_tags(find_open_tags(discarded)) \o kept)

\* the turn has ended with the error text in the message
turn_over == frames[Producer].pc = "done"

\* C37: after the handler has put the error text into the message, no
\* delayed flush pushes: no frame that was not already in its edit_text
\* call starts one, and the error text stays the last edit accepted.
C37_NoPushAfterTurnEnd ==
    [][turn_over =>
          /\ telegram'.edit.by \in {telegram.edit.by, NoFrame}
          /\ telegram.edit.by = NoFrame => telegram'.pushed_by = "error"
      ]_vars

\* C32: an interrupt (the cancel command or the cancel button) cancels all
\* pending approvals: when it has been handled the pending set holds the
\* entry of no call in flight, and every call that was in flight holds a
\* deny with its event set, so that it returns deny without waiting for its
\* timeout, or has returned deny.
C32_InterruptCancelsPending ==
    [][\/ \A c \in Calls :
             in_flight(c) =>
                 /\ \A i \in Ids : pending'[i] # c
                 /\ \/ event'[c] /\ result'[c].kind = "deny"
                    \/ pc'[c] = "returned" /\ ret'[c].kind = "deny"
       \/ ~cancel
      ]_vars

\* the prompt of call c is with the user, or on its way to the user, and
\* the call has not returned
prompt_visible(c) == pc[c] \in {"sending", "waiting"}

\* cancel_all has cancelled the request of call c
cancelled(c) == event[c] /\ result[c] = CancelledDeny

\* C36: a pending approval is registered before its prompt is shown: in
\* every state in which the prompt of a request is visible and the request
\* has not returned, the pending set holds its entry under its id, so a
\* resolve for the id finds it.
C36_RegisteredWhilePromptVisible ==
    \A c \in Calls : prompt_visible(c) => pending[request_id[c]] = c

\* C36 amended: in every state in which the prompt of a request is visible,
\* the request has not returned and cancel_all has not cancelled it, the
\* pending set holds its entry under its id, so a resolve for the id finds
\* it.
C36_RegisteredUnlessCancelled ==
    \A c \in Calls :
        (prompt_visible(c) /\ ~cancelled(c)) => pending[request_id[c]] = c

\* a resolve has found the entry of a request whose prompt was still being
\* sent
C36_Witness ==
    \E c \in Calls :
        /\ pc[c] = "sending" /\ event[c] /\ result[c] = PermissionResultAllow
        /\ last_return.op = "resolve" /\ last_return.ok
        /\ pending[request_id[c]] = c

\* call c is made in this step and returns allow at once, without a prompt
bypasses_now(c) ==
    /\ calls_now(c) /\ pc'[c] = "returned"
    /\ ret'[c] = PermissionResultAllow /\ request_id'[c] = NoId

\* a call of a turn of the chat ch for the tool t was prompted and has
\* returned allow
allowed_in(ch, t) ==
    \E d \in Calls :
        /\ returned(d) /\ turns.origin[d] = ch /\ tool_name[d] = t
        /\ request_id[d] # NoId /\ ret[d] = PermissionResultAllow

\* C38: an allow-always given in one chat does not change the outcome of
\* the requests of another chat.  Had the decisions of the other chats been
\* deny, the always-allow set would hold only the tools allowed in this
\* chat, and a request of this chat for any other tool would prompt; so a
\* request of a chat returns allow without a prompt only for a tool for
\* which a prompted request of this same chat has returned allow.
C38_AlwaysAllowStaysInItsChat ==
    [][\A c \in Calls :
          bypasses_now(c) => allowed_in(turns'.origin[c], tool_name'[c])
      ]_vars

\* C39: the prompt of a request is shown in the chat whose turn issued the
\* request: in the step in which a call starts to send its prompt, the
\* chat the manager sends to is the chat of the call's turn.
C39_PromptInChatOfTurn ==
    [][\A c \in Calls :
          (calls_now(c) /\ pc'[c] = "sending") => chat_id = turns'.origin[c]
      ]_vars

====
